---- MODULE Spec2Model ----
(***************************************************************************)
(* Bitboard chess position (Board), incremental move application          *)
(* (update_by_move) and pseudo-legal move generation (generate_moves_for). *)
(*                                                                         *)
(* A BitBoard (u64) is represented by the set of its set bit indices, a    *)
(* subset of 0..63: bit i is on iff i is in the set.  Shifts drop the bits *)
(* pushed outside 0..63, exactly as << and >> on u64 do.                   *)
(* An Option<T> is represented by a set with at most one element.          *)
(***************************************************************************)
EXTENDS Integers, Sequences, FiniteSets, TLC

\* ------------------------------------------------------------------ bounds
MaxPly == 2
MaxReqLen == 2
MaxBits == 2

\* ------------------------------------------------------- piece identities
WhitePawn == 0
BlackPawn == 1
WhiteKnight == 2
BlackKnight == 3
WhiteBishop == 4
BlackBishop == 5
WhiteRook == 6
BlackRook == 7
WhiteQueen == 8
BlackQueen == 9
WhiteKing == 10
BlackKing == 11

ALL_PIECES == <<WhitePawn, BlackPawn, WhiteKnight, BlackKnight, WhiteBishop, BlackBishop,
                WhiteRook, BlackRook, WhiteQueen, BlackQueen, WhiteKing, BlackKing>>

Pieces == 0..11

White == 0
Black == 1

\* Piece::color: even ordinals are white, odd are black.
color(p) == p % 2

opposite(c) == 1 - c

\* ---------------------------------------------------------------- squares
Squares == 0..63

FileIdx == [a |-> 0, b |-> 1, c |-> 2, d |-> 3, e |-> 4, f |-> 5, g |-> 6, h |-> 7]

\* Square named by file letter and rank digit: index = (rank - 1) * 8 + file.
Sq(f, r) == (r - 1) * 8 + FileIdx[f]

\* Variant of get_rank: the rank counted from 0.
get_rank_zero_based(sq) == sq \div 8

\* Square::get_rank
get_rank(sq) == (sq \div 8) + 1

\* Square::get_file, as the file number 0..7 ('a' + n)
get_file(sq) == sq % 8

\* ------------------------------------------------------ bit-set primitive
EMPTY == {}

is_set(bb, index) == index \in bb

\* From<Square> for BitBoard: 1 << square
FromSquare(sq) == {sq}

BitAnd(x, y) == x \cap y

BitOr(x, y) == x \cup y

BitXor(x, y) == (x \ y) \cup (y \ x)

BitNot(x) == Squares \ x

\* Variant of Shl: a rotation, the bits pushed past bit 63 come back at bit 0.
Shl_rotate(x, n) == {(s + n) % 64 : s \in x}

Shl(x, n) == {s + n : s \in x} \cap Squares

Shr(x, n) == {s - n : s \in x} \cap Squares

is_zero(x) == x = {}

Lowest(x) == CHOOSE s \in x : \A t \in x : s <= t

\* Variant of get_ls1b: the highest set bit is taken.
get_ls1b_highest(x) == IF x = {} THEN {} ELSE {CHOOSE s \in x : \A t \in x : t <= s}

\* lowest set bit as a singleton bit-set; empty on the empty bit-set
get_ls1b(x) == IF x = {} THEN {} ELSE {Lowest(x)}

\* x & (x - 1): clears the lowest set bit; empty stays empty
reset_ls1b(x) == x \ get_ls1b(x)

\* index of the lowest set bit (callers check emptiness first)
get_index(x) == Lowest(x)

\* x.contains(y): every bit of y is in x
contains(x, y) == BitAnd(x, y) = y

\* -------------------------------------------------------------- move value
NoPromotion == {}

MoveNew(from, to, promotion, piece, is_capture) ==
    [from |-> from, to |-> to, promotion |-> promotion, piece |-> piece,
     is_capture |-> is_capture]

MoveQuiet(from, to, piece) == MoveNew(from, to, NoPromotion, piece, FALSE)

MoveCapture(from, to, piece) == MoveNew(from, to, NoPromotion, piece, TRUE)

\* ------------------------------------------------------------ board layers
get_all_bitboards(ps) ==
    [c \in 0..1 |-> UNION {ps[i] : i \in {j \in Pieces : j % 2 = c}}]

get_occupied_bitboard(al) == BitOr(al[0], al[1])

MkBoard(ps) ==
    LET al == get_all_bitboards(ps)
    IN  [pieces |-> ps, all |-> al, occupied |-> get_occupied_bitboard(al)]

BoardEmpty ==
    [pieces |-> [p \in Pieces |-> EMPTY], all |-> [c \in 0..1 |-> EMPTY], occupied |-> EMPTY]

Rank(r) == {s \in Squares : get_rank(s) = r}

WHITE_PAWNS == Rank(2)
BLACK_PAWNS == Rank(7)
WHITE_KNIGHTS == {Sq("b", 1), Sq("g", 1)}
BLACK_KNIGHTS == {Sq("b", 8), Sq("g", 8)}
WHITE_BISHOPS == {Sq("c", 1), Sq("f", 1)}
BLACK_BISHOPS == {Sq("c", 8), Sq("f", 8)}
WHITE_ROOKS == {Sq("a", 1), Sq("h", 1)}
BLACK_ROOKS == {Sq("a", 8), Sq("h", 8)}
WHITE_QUEENS == {Sq("d", 1)}
BLACK_QUEENS == {Sq("d", 8)}
WHITE_KING == {Sq("e", 1)}
BLACK_KING == {Sq("e", 8)}

initial_board ==
    MkBoard([p \in Pieces |->
        CASE p = WhitePawn -> WHITE_PAWNS
          [] p = BlackPawn -> BLACK_PAWNS
          [] p = WhiteKnight -> WHITE_KNIGHTS
          [] p = BlackKnight -> BLACK_KNIGHTS
          [] p = WhiteBishop -> WHITE_BISHOPS
          [] p = BlackBishop -> BLACK_BISHOPS
          [] p = WhiteRook -> WHITE_ROOKS
          [] p = BlackRook -> BLACK_ROOKS
          [] p = WhiteQueen -> WHITE_QUEENS
          [] p = BlackQueen -> BLACK_QUEENS
          [] p = WhiteKing -> WHITE_KING
          [] OTHER -> BLACK_KING])

\* ----------------------------------------------------- position text (FEN)
\* The text collaborator exchanges the piece placement as a 64-entry sequence
\* of optional pieces, rank 8 first, file a first within a rank, together with
\* the side to move.  Entry k (1-based) describes the square PlacementSquare(k).
PlacementSquare(k) == (7 - ((k - 1) \div 8)) * 8 + ((k - 1) % 8)

\* Placement built from a set of <<piece, square>> pairs (one piece per square).
PlacementOf(pairs) ==
    [k \in 1..64 |-> {pr[1] : pr \in {q \in pairs : q[2] = PlacementSquare(k)}}]

\* BitBoard from a 64-entry 0/1 sequence: chunks of 8 are ranks 8..1,
\* position f within a chunk is file f.
FromBits(filtered) == {PlacementSquare(k) : k \in {j \in 1..64 : filtered[j] = 1}}

from_fen(fen) ==
    MkBoard([piece \in Pieces |->
        FromBits([k \in 1..64 |-> IF fen.placement[k] = {piece} THEN 1 ELSE 0])])

\* First of the 12 bit-sets, in array order, that has bit index set.
FirstPieceAt(ps, index) ==
    LET hits == {i \in Pieces : is_set(ps[i], index)}
    IN  IF hits = {} THEN {} ELSE {ALL_PIECES[Lowest(hits) + 1]}

as_fen(b) ==
    [placement |-> [k \in 1..64 |->
                      LET rank == 7 - ((k - 1) \div 8)
                          file == (k - 1) % 8
                      IN  FirstPieceAt(b.pieces, rank * 8 + file)],
     side |-> White]

\* Variant of update_by_move: the promotion test comes after the bit-sets of
\* the moving piece have been updated.
update_by_move_late_test(b, mv) ==
    LET c == color(mv.piece)
        to_bb == FromSquare(mv.to)
        from_to_bb == BitXor(FromSquare(mv.from), to_bb)
        pieces1 == [b.pieces EXCEPT ![mv.piece] = BitXor(@, from_to_bb)]
        all1 == [b.all EXCEPT ![c] = BitXor(@, from_to_bb)]
        hits == {i \in Pieces : ~is_zero(BitAnd(pieces1[i], to_bb))}
        found == mv.is_capture /\ hits # {}
    IN  IF mv.promotion # {}
        THEN [pieces |-> pieces1, all |-> all1, occupied |-> b.occupied, panicked |-> TRUE]
        ELSE [pieces |-> IF found THEN [pieces1 EXCEPT ![Lowest(hits)] = BitXor(@, to_bb)]
                                 ELSE pieces1,
              all |-> IF found THEN [all1 EXCEPT ![opposite(c)] = BitXor(@, to_bb)] ELSE all1,
              occupied |-> BitXor(b.occupied, from_to_bb), panicked |-> FALSE]

\* Variant of update_by_move: the two squares are switched on in occupied
\* instead of being toggled.
update_by_move_set_occupied(b, mv) ==
    IF mv.promotion # {}
    THEN [pieces |-> b.pieces, all |-> b.all, occupied |-> b.occupied, panicked |-> TRUE]
    ELSE
      LET c == color(mv.piece)
          to_bb == FromSquare(mv.to)
          from_to_bb == BitXor(FromSquare(mv.from), to_bb)
          pieces1 == [b.pieces EXCEPT ![mv.piece] = BitXor(@, from_to_bb)]
          all1 == [b.all EXCEPT ![c] = BitXor(@, from_to_bb)]
          hits == {i \in Pieces : ~is_zero(BitAnd(pieces1[i], to_bb))}
          found == mv.is_capture /\ hits # {}
      IN  [pieces |-> IF found THEN [pieces1 EXCEPT ![Lowest(hits)] = BitXor(@, to_bb)]
                               ELSE pieces1,
           all |-> IF found THEN [all1 EXCEPT ![opposite(c)] = BitXor(@, to_bb)] ELSE all1,
           occupied |-> BitOr(b.occupied, from_to_bb), panicked |-> FALSE]

\* Result of update_by_move on board b: the three layers afterwards and
\* whether the call hit the unimplemented (fatal) path.
update_by_move(b, mv) ==
    IF mv.promotion # {}
    THEN [pieces |-> b.pieces, all |-> b.all, occupied |-> b.occupied, panicked |-> TRUE]
    ELSE
      LET c == color(mv.piece)
          from_bb == FromSquare(mv.from)
          to_bb == FromSquare(mv.to)
          from_to_bb == BitXor(from_bb, to_bb)
          pieces1 == [b.pieces EXCEPT ![mv.piece] = BitXor(@, from_to_bb)]
          all1 == [b.all EXCEPT ![c] = BitXor(@, from_to_bb)]
          hits == {i \in Pieces : ~is_zero(BitAnd(pieces1[i], to_bb))}
          found == mv.is_capture /\ hits # {}
          pieces2 == IF found
                     THEN [pieces1 EXCEPT ![Lowest(hits)] = BitXor(@, to_bb)]
                     ELSE pieces1
          all2 == IF found
                  THEN [all1 EXCEPT ![opposite(c)] = BitXor(@, to_bb)]
                  ELSE all1
      IN  [pieces |-> pieces2, all |-> all2,
           occupied |-> BitXor(b.occupied, from_to_bb), panicked |-> FALSE]

\* ------------------------------------------------- per-piece target rules
File(f) == {s \in Squares : get_file(s) = f}

NOT_A_FILE == BitNot(File(0))
NOT_H_FILE == BitNot(File(7))
NOT_AB_FILE == BitNot(File(0) \cup File(1))
NOT_GH_FILE == BitNot(File(6) \cup File(7))
RANK_3 == Rank(3)
RANK_6 == Rank(6)

\* King: one step in each of the 8 compass directions, file wrap excluded,
\* minus the squares held by the mover's own color.
get_king_moves(from_bb, own_bb) ==
    LET not_a == BitAnd(from_bb, NOT_A_FILE)
        not_h == BitAnd(from_bb, NOT_H_FILE)
        raw == Shl(not_a, 7) \cup Shl(from_bb, 8) \cup Shl(not_h, 9) \cup Shl(not_h, 1)
               \cup Shr(not_h, 7) \cup Shr(from_bb, 8) \cup Shr(not_a, 9) \cup Shr(not_a, 1)
    IN  BitAnd(raw, BitNot(own_bb))

\* Knight: the 8 L-shaped offsets, file wrap excluded, minus own squares.
get_knight_moves(from_bb, own_bb) ==
    LET not_a == BitAnd(from_bb, NOT_A_FILE)
        not_h == BitAnd(from_bb, NOT_H_FILE)
        not_ab == BitAnd(from_bb, NOT_AB_FILE)
        not_gh == BitAnd(from_bb, NOT_GH_FILE)
        raw == Shl(not_h, 17) \cup Shl(not_gh, 10) \cup Shr(not_gh, 6) \cup Shr(not_h, 15)
               \cup Shl(not_a, 15) \cup Shl(not_ab, 6) \cup Shr(not_ab, 10) \cup Shr(not_a, 17)
    IN  BitAnd(raw, BitNot(own_bb))

\* White pawn: single push onto an empty square, double push from rank 2
\* over two empty squares, diagonal captures onto the opponent aggregate.
get_white_pawn_moves(from_bb, occ, opposite_bb) ==
    LET single == BitAnd(Shl(from_bb, 8), BitNot(occ))
        double == BitAnd(Shl(BitAnd(single, RANK_3), 8), BitNot(occ))
        attacks == Shl(BitAnd(from_bb, NOT_A_FILE), 7) \cup Shl(BitAnd(from_bb, NOT_H_FILE), 9)
    IN  single \cup double \cup BitAnd(attacks, opposite_bb)

\* Black pawn: the mirror image, moving toward rank 1 from rank 7.
get_black_pawn_moves(from_bb, occ, opposite_bb) ==
    LET single == BitAnd(Shr(from_bb, 8), BitNot(occ))
        double == BitAnd(Shr(BitAnd(single, RANK_6), 8), BitNot(occ))
        attacks == Shr(BitAnd(from_bb, NOT_H_FILE), 7) \cup Shr(BitAnd(from_bb, NOT_A_FILE), 9)
    IN  single \cup double \cup BitAnd(attacks, opposite_bb)

\* A ray direction: the shift (positive = left shift) and the file mask the
\* stepping square must satisfy so that the step does not wrap.
DirN == [shift |-> 8, mask |-> Squares]
DirS == [shift |-> -8, mask |-> Squares]
DirE == [shift |-> 1, mask |-> NOT_H_FILE]
DirW == [shift |-> -1, mask |-> NOT_A_FILE]
DirNE == [shift |-> 9, mask |-> NOT_H_FILE]
DirNW == [shift |-> 7, mask |-> NOT_A_FILE]
DirSE == [shift |-> -7, mask |-> NOT_H_FILE]
DirSW == [shift |-> -9, mask |-> NOT_A_FILE]

Step(bb, dir) ==
    IF dir.shift >= 0 THEN Shl(BitAnd(bb, dir.mask), dir.shift)
                      ELSE Shr(BitAnd(bb, dir.mask), 0 - dir.shift)

\* Squares along dir from bb up to and including the first occupied one.
RECURSIVE Ray(_, _, _)
Ray(bb, dir, occ) ==
    LET next == Step(bb, dir)
    IN  IF is_zero(next) THEN EMPTY
        ELSE IF ~is_zero(BitAnd(next, occ)) THEN next
        ELSE next \cup Ray(next, dir, occ)

get_bishop_moves(from_bb, occ, own_bb) ==
    BitAnd(UNION {Ray(from_bb, d, occ) : d \in {DirNE, DirNW, DirSE, DirSW}}, BitNot(own_bb))

get_rook_moves(from_bb, occ, own_bb) ==
    BitAnd(UNION {Ray(from_bb, d, occ) : d \in {DirN, DirS, DirE, DirW}}, BitNot(own_bb))

get_queen_moves(from_bb, occ, own_bb) ==
    get_bishop_moves(from_bb, occ, own_bb) \cup get_rook_moves(from_bb, occ, own_bb)

\* ------------------------------------------------------ generate_moves_for
\* Variant of the match: the sliding rules are handed the opponent's aggregate
\* where the mover's own belongs.
moves_bb_for_swapped(moving_pieces, from_bb, occ, own_bb, opposite_bb) ==
    CASE moving_pieces \in {WhiteKing, BlackKing} -> get_king_moves(from_bb, own_bb)
      [] moving_pieces \in {WhiteKnight, BlackKnight} -> get_knight_moves(from_bb, own_bb)
      [] moving_pieces = WhitePawn -> get_white_pawn_moves(from_bb, occ, opposite_bb)
      [] moving_pieces = BlackPawn -> get_black_pawn_moves(from_bb, occ, opposite_bb)
      [] moving_pieces \in {WhiteBishop, BlackBishop} ->
            get_bishop_moves(from_bb, occ, opposite_bb)
      [] moving_pieces \in {WhiteRook, BlackRook} -> get_rook_moves(from_bb, occ, opposite_bb)
      [] OTHER -> get_queen_moves(from_bb, occ, opposite_bb)

\* Variant of the match: the pawn rules are handed the mover's own aggregate
\* where the occupancy belongs.
moves_bb_for_pawn_own(moving_pieces, from_bb, occ, own_bb, opposite_bb) ==
    CASE moving_pieces \in {WhiteKing, BlackKing} -> get_king_moves(from_bb, own_bb)
      [] moving_pieces \in {WhiteKnight, BlackKnight} -> get_knight_moves(from_bb, own_bb)
      [] moving_pieces = WhitePawn -> get_white_pawn_moves(from_bb, own_bb, opposite_bb)
      [] moving_pieces = BlackPawn -> get_black_pawn_moves(from_bb, own_bb, opposite_bb)
      [] moving_pieces \in {WhiteBishop, BlackBishop} -> get_bishop_moves(from_bb, occ, own_bb)
      [] moving_pieces \in {WhiteRook, BlackRook} -> get_rook_moves(from_bb, occ, own_bb)
      [] OTHER -> get_queen_moves(from_bb, occ, own_bb)

\* The match on the moving piece: which target rule serves which identity.
moves_bb_for(moving_pieces, from_bb, occ, own_bb, opposite_bb) ==
    CASE moving_pieces \in {WhiteKing, BlackKing} -> get_king_moves(from_bb, own_bb)
      [] moving_pieces \in {WhiteKnight, BlackKnight} -> get_knight_moves(from_bb, own_bb)
      [] moving_pieces = WhitePawn -> get_white_pawn_moves(from_bb, occ, opposite_bb)
      [] moving_pieces = BlackPawn -> get_black_pawn_moves(from_bb, occ, opposite_bb)
      [] moving_pieces \in {WhiteBishop, BlackBishop} -> get_bishop_moves(from_bb, occ, own_bb)
      [] moving_pieces \in {WhiteRook, BlackRook} -> get_rook_moves(from_bb, occ, own_bb)
      [] OTHER -> get_queen_moves(from_bb, occ, own_bb)

\* Variant of the inner loop: the capture flag is tested against all the
\* destinations still to come instead of the one being emitted.
RECURSIVE DestLoop_flag_any(_, _, _, _)
DestLoop_flag_any(moves_bb, from_square, moving_pieces, opposite_bb) ==
    IF is_zero(moves_bb) THEN <<>>
    ELSE LET to_bb == get_ls1b(moves_bb)
             to_square == get_index(to_bb)
             is_capture == ~is_zero(BitAnd(opposite_bb, moves_bb))
             mv == MoveNew(from_square, to_square, NoPromotion, moving_pieces, is_capture)
         IN  <<mv>> \o DestLoop_flag_any(reset_ls1b(moves_bb), from_square, moving_pieces,
                                         opposite_bb)

\* Inner loop: one Move per bit of moves_bb, lowest bit first.
RECURSIVE DestLoop(_, _, _, _)
DestLoop(moves_bb, from_square, moving_pieces, opposite_bb) ==
    IF is_zero(moves_bb) THEN <<>>
    ELSE LET to_bb == get_ls1b(moves_bb)
             to_square == get_index(to_bb)
             is_capture == contains(opposite_bb, to_bb)
             mv == MoveNew(from_square, to_square, NoPromotion, moving_pieces, is_capture)
         IN  <<mv>> \o DestLoop(reset_ls1b(moves_bb), from_square, moving_pieces, opposite_bb)

\* Variant of the outer loop: the moves of a source square are put in front
\* of the list instead of at its end.
RECURSIVE SourceLoop_prepend(_, _, _, _)
SourceLoop_prepend(pieces_bb, moving_pieces, b, side) ==
    IF is_zero(pieces_bb) THEN <<>>
    ELSE LET own_bb == b.all[side]
             opposite_bb == b.all[opposite(side)]
             from_bb == get_ls1b(pieces_bb)
             from_square == get_index(from_bb)
             moves_bb == moves_bb_for(moving_pieces, from_bb, b.occupied, own_bb, opposite_bb)
         IN  SourceLoop_prepend(reset_ls1b(pieces_bb), moving_pieces, b, side)
             \o DestLoop(moves_bb, from_square, moving_pieces, opposite_bb)

\* Outer loop: one source square per bit of pieces_bb, lowest bit first.
RECURSIVE SourceLoop(_, _, _, _)
SourceLoop(pieces_bb, moving_pieces, b, side) ==
    IF is_zero(pieces_bb) THEN <<>>
    ELSE LET own_bb == b.all[side]
             opposite_bb == b.all[opposite(side)]
             from_bb == get_ls1b(pieces_bb)
             from_square == get_index(from_bb)
             moves_bb == moves_bb_for(moving_pieces, from_bb, b.occupied, own_bb, opposite_bb)
         IN  DestLoop(moves_bb, from_square, moving_pieces, opposite_bb)
             \o SourceLoop(reset_ls1b(pieces_bb), moving_pieces, b, side)

\* The requested pieces are visited in the order the caller lists them,
\* skipping those that are not of the side to move.
RECURSIVE generate_moves_for(_, _, _)
generate_moves_for(b, side, req) ==
    IF req = <<>> THEN <<>>
    ELSE LET moving_pieces == Head(req)
             block == IF side = color(moving_pieces)
                      THEN SourceLoop(b.pieces[moving_pieces], moving_pieces, b, side)
                      ELSE <<>>
         IN  block \o generate_moves_for(b, side, Tail(req))

\* Board::generate_moves of board.rs, its loop: one Move per member of attacks,
\* in ascending order, flagged as a capture when the destination is in the
\* black aggregate.
RECURSIVE AttacksLoop(_, _, _)
AttacksLoop(attacks, from_square, black_bb) ==
    IF is_zero(attacks) THEN <<>>
    ELSE LET to_bb == get_ls1b(attacks)
             to_square == get_index(to_bb)
             is_capture == ~is_zero(BitAnd(black_bb, to_bb))
             mv == MoveNew(from_square, to_square, NoPromotion, WhiteKing, is_capture)
         IN  <<mv>> \o AttacksLoop(reset_ls1b(attacks), from_square, black_bb)

\* Board::generate_moves of board.rs: the moves of the white king and of no
\* other piece, whatever the side to move.  src/ holds this function next to
\* the generate_moves of board/move_gen.rs, which is the one defined below
\* under that name.
generate_moves_white_king(b) ==
    LET king_bb == b.pieces[WhiteKing]
        from_square == get_index(king_bb)
        attacks == get_king_moves(king_bb, b.all[White])
    IN  AttacksLoop(attacks, from_square, b.all[Black])

\* Variant of generate_moves: only the white king is asked for.
generate_moves_king_only(b, side) == generate_moves_for(b, side, <<WhiteKing>>)

generate_moves(b, side) == generate_moves_for(b, side, ALL_PIECES)

\* ------------------------------------------------------- input positions
\* Positions handed to from_fen, as the decoded text fields the board uses.
Fen(pairs, side) == [placement |-> PlacementOf(pairs), side |-> side]

PawnRow(piece, r) == {<<piece, s>> : s \in Rank(r)}

\* "rnbqkbnr/pppppppp/8/8/8/8/PPPPPPPP/RNBQKBNR w KQkq - 0 1"
START_POSITION == as_fen(initial_board)

\* "2k5/8/8/8/8/8/2Pp4/2K5 w - - 0 1"
FenKingWhite ==
    Fen({<<BlackKing, Sq("c", 8)>>, <<WhitePawn, Sq("c", 2)>>, <<BlackPawn, Sq("d", 2)>>,
         <<WhiteKing, Sq("c", 1)>>}, White)

\* "2k5/2Pp4/8/8/8/8/8/2K5 b - - 0 1"
FenKingBlack ==
    Fen({<<BlackKing, Sq("c", 8)>>, <<WhitePawn, Sq("c", 7)>>, <<BlackPawn, Sq("d", 7)>>,
         <<WhiteKing, Sq("c", 1)>>}, Black)

\* "8/8/6p1/5N2/8/1N6/8/8 w - - 0 1"
FenKnightWhite ==
    Fen({<<BlackPawn, Sq("g", 6)>>, <<WhiteKnight, Sq("f", 5)>>, <<WhiteKnight, Sq("b", 3)>>},
        White)

\* "8/8/8/8/4N3/n1pB2P1/PPPPPPPP/8 w - - 0 1"
FenPawnWhite ==
    Fen(PawnRow(WhitePawn, 2) \cup
        {<<WhiteKnight, Sq("e", 4)>>, <<BlackKnight, Sq("a", 3)>>, <<BlackPawn, Sq("c", 3)>>,
         <<WhiteBishop, Sq("d", 3)>>, <<WhitePawn, Sq("g", 3)>>}, White)

\* "8/pppppppp/n1pB2P1/4N3/8/8/8/8 b - - 0 1"
FenPawnBlack ==
    Fen(PawnRow(BlackPawn, 7) \cup
        {<<BlackKnight, Sq("a", 6)>>, <<BlackPawn, Sq("c", 6)>>, <<WhiteBishop, Sq("d", 6)>>,
         <<WhitePawn, Sq("g", 6)>>, <<WhiteKnight, Sq("e", 5)>>}, Black)

\* "4k3/8/6p1/3P4/5N2/1N6/8/R3K3 w - - 0 1"
FenMixedWhite ==
    Fen({<<BlackKing, Sq("e", 8)>>, <<BlackPawn, Sq("g", 6)>>, <<WhitePawn, Sq("d", 5)>>,
         <<WhiteKnight, Sq("f", 4)>>, <<WhiteKnight, Sq("b", 3)>>, <<WhiteRook, Sq("a", 1)>>,
         <<WhiteKing, Sq("e", 1)>>}, White)

\* "R3k3/7r/8/2b5/p6Q/B7/5P2/4K3 w - - 0 1": white sliders meeting friends and enemies
FenSlidersWhite ==
    Fen({<<WhiteRook, Sq("a", 8)>>, <<BlackKing, Sq("e", 8)>>, <<BlackRook, Sq("h", 7)>>,
         <<BlackBishop, Sq("c", 5)>>, <<BlackPawn, Sq("a", 4)>>, <<WhiteQueen, Sq("h", 4)>>,
         <<WhiteBishop, Sq("a", 3)>>, <<WhitePawn, Sq("f", 2)>>, <<WhiteKing, Sq("e", 1)>>},
        White)

\* "3k4/p1N5/7b/q7/5B2/8/P7/4K2r b - - 0 1": black sliders meeting friends and enemies
FenSlidersBlack ==
    Fen({<<BlackKing, Sq("d", 8)>>, <<BlackPawn, Sq("a", 7)>>, <<WhiteKnight, Sq("c", 7)>>,
         <<BlackBishop, Sq("h", 6)>>, <<BlackQueen, Sq("a", 5)>>, <<WhiteBishop, Sq("f", 4)>>,
         <<WhitePawn, Sq("a", 2)>>, <<WhiteKing, Sq("e", 1)>>, <<BlackRook, Sq("h", 1)>>},
        Black)

\* "N7/8/8/8/pp5K/P6n/7P/R6N w - - 0 1": white pieces on the a and h files
FenEdgesWhite ==
    Fen({<<WhiteKnight, Sq("a", 8)>>, <<BlackPawn, Sq("a", 4)>>, <<WhiteKing, Sq("h", 4)>>,
         <<WhitePawn, Sq("a", 3)>>, <<BlackPawn, Sq("b", 4)>>, <<BlackKnight, Sq("h", 3)>>,
         <<WhitePawn, Sq("h", 2)>>, <<WhiteRook, Sq("a", 1)>>, <<WhiteKnight, Sq("h", 1)>>},
        White)

\* "n7/p7/P6p/k5PN/8/8/8/7n b - - 0 1": black pieces on the a and h files
FenEdgesBlack ==
    Fen({<<BlackKnight, Sq("a", 8)>>, <<BlackPawn, Sq("a", 7)>>, <<WhitePawn, Sq("a", 6)>>,
         <<BlackPawn, Sq("h", 6)>>, <<BlackKing, Sq("a", 5)>>, <<WhitePawn, Sq("g", 5)>>,
         <<WhiteKnight, Sq("h", 5)>>, <<BlackKnight, Sq("h", 1)>>}, Black)

\* "4k3/8/8/3p4/4P3/8/8/4K3 w - - 0 1": a pawn that can take a pawn
FenPawnTakes ==
    Fen({<<BlackKing, Sq("e", 8)>>, <<BlackPawn, Sq("d", 5)>>, <<WhitePawn, Sq("e", 4)>>,
         <<WhiteKing, Sq("e", 1)>>}, White)

\* "4k3/8/8/8/8/8/r2P4/4K3 b - - 0 1": a rook that can take a pawn
FenRookBlack ==
    Fen({<<BlackKing, Sq("e", 8)>>, <<BlackRook, Sq("a", 2)>>, <<WhitePawn, Sq("d", 2)>>,
         <<WhiteKing, Sq("e", 1)>>}, Black)

GenPositions ==
    {START_POSITION, FenKingWhite, FenKingBlack, FenKnightWhite, FenPawnWhite, FenPawnBlack,
     FenMixedWhite, FenSlidersWhite, FenSlidersBlack, FenEdgesWhite, FenEdgesBlack,
     FenPawnTakes, FenRookBlack}

PlayPositions == {FenKingWhite, FenKingBlack, FenPawnTakes, FenRookBlack}

\* -------------------------------------------------------------- the state
\* pieces, all, occupied: the three layers of the Board.
\* side_to_move: the side generate_moves_for generates for.
\* ply, last_mv, before: the number of update_by_move calls made on the board,
\*   the move of the last call, and the layers as they were when it was made.
\* panicked: a call ended on the unimplemented path.
\* request, moves_list: the argument and the result of the last generation.
\* bits: a bit-set handed to get_ls1b and reset_ls1b, with their results.
\* square: a square handed to Display (sq) with the text it gave (shown), and
\*   a text handed to Square::try_from (text) with the Square (parsed) or the
\*   error (err) it returned.  A text is the sequence of its characters, a
\*   character is its code point.
\* origin: empty, or the board as it was before a quiet move (b), that move
\*   (mv) and whether its reverse has been applied too (undone).
\* loop: the locals of a generate_moves_for call in progress: where it stands
\*   (pc), the requested pieces still to visit (todo), moving_pieces,
\*   pieces_bb, from_square and moves_bb; and, for the loop it is in, the
\*   target set the destination loop started from (targets) and the number of
\*   iterations of the source loop (sources) and of the destination loop
\*   (dests) begun so far.
VARIABLES pieces, all, occupied, side_to_move, ply, last_mv, before, panicked,
          request, moves_list, bits, square, origin, loop

vars == <<pieces, all, occupied, side_to_move, ply, last_mv, before, panicked,
          request, moves_list, bits, square, origin, loop>>

locals == <<bits, square, origin, loop>>

NoBits == [x |-> {}, ls1b |-> {}, rest |-> {}, applied |-> FALSE]

NoSquare == [sq |-> {}, shown |-> <<>>, text |-> <<>>, parsed |-> {}, err |-> {},
             stage |-> "none"]

NoLoop == [pc |-> "idle", todo |-> <<>>, moving_pieces |-> {}, pieces_bb |-> {},
           from_square |-> {}, moves_bb |-> {}, targets |-> {}, sources |-> 0,
           dests |-> 0]

InitLocals ==
    /\ bits = NoBits
    /\ square = NoSquare
    /\ origin = {}
    /\ loop = NoLoop

board == [pieces |-> pieces, all |-> all, occupied |-> occupied]

Layers(b) == [pieces |-> b.pieces, all |-> b.all, occupied |-> b.occupied]

SetBoard(b) ==
    /\ pieces' = b.pieces
    /\ all' = b.all
    /\ occupied' = b.occupied

Init ==
    /\ pieces = initial_board.pieces
    /\ all = initial_board.all
    /\ occupied = initial_board.occupied
    /\ side_to_move = White
    /\ ply = 0
    /\ last_mv = {}
    /\ before = initial_board
    /\ panicked = FALSE
    /\ request = <<>>
    /\ moves_list = <<>>
    /\ InitLocals

\* Board::initial_board()
InitialBoard ==
    /\ ~panicked
    /\ SetBoard(initial_board)
    /\ side_to_move' = White
    /\ ply' = 0
    /\ last_mv' = {}
    /\ before' = initial_board
    /\ request' = <<>>
    /\ moves_list' = <<>>
    /\ UNCHANGED <<panicked, locals>>

\* from_fen of each input position, decoded once.
Decoded == [fen \in GenPositions \cup PlayPositions |-> from_fen(fen)]

\* Board::from(fen)
FromFen(fen) ==
    /\ ~panicked
    /\ SetBoard(Decoded[fen])
    /\ side_to_move' = fen.side
    /\ ply' = 0
    /\ last_mv' = {}
    /\ before' = Decoded[fen]
    /\ request' = <<>>
    /\ moves_list' = <<>>
    /\ UNCHANGED <<panicked, locals>>

\* The pieces standing on sq according to the 12 piece bit-sets.
PiecesAt(ps, sq) == {p \in Pieces : sq \in ps[p]}

\* A move is board-consistent when its piece stands on from and its to holds
\* nothing (quiet) or a piece of the opposite color (capture).
Consistent(b, mv) ==
    /\ mv.from \in b.pieces[mv.piece]
    /\ IF mv.is_capture
       THEN /\ PiecesAt(b.pieces, mv.to) # {}
            /\ \A q \in PiecesAt(b.pieces, mv.to) : color(q) # color(mv.piece)
       ELSE PiecesAt(b.pieces, mv.to) = {}

SeqSet(sq) == {sq[i] : i \in 1..Len(sq)}

\* The moves offered to update_by_move: the board-consistent moves among those
\* generate_moves lists for the side to move.
PlayableMoves(b, side) ==
    {mv \in SeqSet(generate_moves(b, side)) : Consistent(b, mv)}

\* The promotion pieces tried on the unimplemented path.
PromotionInputs == {WhiteQueen, BlackKnight}

\* board.update_by_move(mv)
UpdateByMove(mv) ==
    /\ ~panicked
    /\ ply < MaxPly
    /\ LET r == update_by_move(board, mv)
       IN  /\ SetBoard(r)
           /\ panicked' = r.panicked
    /\ ply' = ply + 1
    /\ last_mv' = {mv}
    /\ before' = board
    /\ UNCHANGED <<side_to_move, request, moves_list, locals>>

UpdateByMoveStep ==
    \E base \in PlayableMoves(board, side_to_move) :
        \E promo \in {NoPromotion} \cup {{p} : p \in PromotionInputs} :
            UpdateByMove([base EXCEPT !.promotion = promo])

Next ==
    \/ InitialBoard
    \/ \E fen \in PlayPositions : FromFen(fen)
    \/ UpdateByMoveStep

Spec == Init /\ [][Next]_vars

\* Requests: the pieces of a subset listed in some order, without repeats.
RECURSIVE SeqsUpTo(_)
SeqsUpTo(n) ==
    IF n = 0 THEN {<<>>}
    ELSE LET shorter == SeqsUpTo(n - 1)
         IN  shorter \cup {Append(sq, p) : sq \in shorter, p \in Pieces}

NoRepeat(sq) == \A i, j \in 1..Len(sq) : i # j => sq[i] # sq[j]

Requests == {sq \in SeqsUpTo(MaxReqLen) : NoRepeat(sq) /\ sq # <<>>}

\* moves_list = board.generate_moves_for(req), called once on a board after
\* it is built (the call is pure and keeps nothing from one call to the next).
GenerateMovesFor(req) ==
    /\ ~panicked
    /\ request = <<>>
    /\ request' = req
    /\ moves_list' = generate_moves_for(board, side_to_move, req)
    /\ UNCHANGED <<pieces, all, occupied, side_to_move, ply, last_mv, before, panicked,
                   locals>>

\* moves_list = board.generate_moves()
GenerateMoves ==
    /\ ~panicked
    /\ request = <<>>
    /\ request' = ALL_PIECES
    /\ moves_list' = generate_moves(board, side_to_move)
    /\ UNCHANGED <<pieces, all, occupied, side_to_move, ply, last_mv, before, panicked,
                   locals>>

\* moves = board.generate_moves(), the function of board.rs, called once on a
\* board after it is built.  It is not a generate_moves_for call: request
\* stays empty.  On a board without a white king get_index() is taken of the
\* empty bit-set and converted to a Square; that conversion is not under
\* src/, so the call either fails there or returns the empty list.
GenerateMovesWhiteKing ==
    /\ ~panicked
    /\ request = <<>>
    /\ moves_list = <<>>
    /\ IF is_zero(pieces[WhiteKing])
       THEN moves_list' = <<>> /\ panicked' \in BOOLEAN
       ELSE moves_list' = generate_moves_white_king(board) /\ panicked' = panicked
    /\ UNCHANGED <<pieces, all, occupied, side_to_move, ply, last_mv, before, request,
                   locals>>

NextGen ==
    \/ InitialBoard
    \/ \E fen \in GenPositions : FromFen(fen)
    \/ \E req \in Requests : GenerateMovesFor(req)
    \/ GenerateMoves
    \/ GenerateMovesWhiteKing

SpecGen == Init /\ [][NextGen]_vars

\* ===================================================== properties: the board
\* The three board invariants of a Board value b.
UnionOfPieces(ps, S) == UNION {ps[i] : i \in S}

InvariantsHold(b) ==
    /\ b.occupied = b.all[White] \cup b.all[Black]
    /\ b.occupied = UnionOfPieces(b.pieces, Pieces)
    /\ \A c \in {White, Black} :
          b.all[c] = UnionOfPieces(b.pieces, {p \in Pieces : color(p) = c})
    /\ \A p, q \in Pieces : p # q => b.pieces[p] \cap b.pieces[q] = {}

\* C1: every board reached from initial_board or from_fen by board-consistent
\* non-promotion moves satisfies the three invariants: occupied is the union
\* of the two color aggregates and of the 12 piece bit-sets, each aggregate is
\* the union of its color's piece bit-sets, the piece bit-sets are disjoint.
C1_BoardInvariants == ~panicked => InvariantsHold(board)

\* The last update_by_move call was a capture that did not fail.
AppliedCapture(mv) == mv \in last_mv /\ ~panicked /\ mv.is_capture

\* C2: after a capture by piece p of color c of an opponent piece q on to,
\* pieces[q] no longer contains to, pieces[p] contains to and not from,
\* all[opposite(c)] no longer contains to, all[c] contains to and not from,
\* for every pair (p, q) of opposite colors.
C2_CaptureRemovesCaptured ==
    \A mv \in last_mv : AppliedCapture(mv) /\ Consistent(before, mv) =>
        LET c == color(mv.piece)
        IN  /\ \A q \in PiecesAt(before.pieces, mv.to) : mv.to \notin pieces[q]
            /\ mv.to \in pieces[mv.piece]
            /\ mv.from \notin pieces[mv.piece]
            /\ mv.to \notin all[opposite(c)]
            /\ mv.to \in all[c]
            /\ mv.from \notin all[c]

\* C3: decoding the encoding of a board built from initial_board by quiet and
\* capture moves gives back the same board in all three layers.
C3_RoundTrip == ~panicked => from_fen(as_fen(board)) = Layers(board)

\* The last update_by_move call was a quiet move of a piece standing on from
\* to a square on which no piece stands.
AppliedQuiet(mv) ==
    /\ mv \in last_mv
    /\ ~panicked
    /\ ~mv.is_capture
    /\ Consistent(before, mv)

MovedBit(x, mv) == (x \ {mv.from}) \cup {mv.to}

\* C4: a quiet move of piece p of color c from a square occupied by p to an
\* empty square clears bit from and sets bit to in pieces[p], all[c] and
\* occupied, and leaves the other 11 piece bit-sets and all[opposite(c)] as
\* they were, so every other square keeps its occupant.
C4_QuietMoveFrame ==
    \A mv \in last_mv : AppliedQuiet(mv) =>
        LET c == color(mv.piece)
        IN  /\ pieces[mv.piece] = MovedBit(before.pieces[mv.piece], mv)
            /\ all[c] = MovedBit(before.all[c], mv)
            /\ occupied = MovedBit(before.occupied, mv)
            /\ \A q \in Pieces \ {mv.piece} : pieces[q] = before.pieces[q]
            /\ all[opposite(c)] = before.all[opposite(c)]
            /\ \A sq \in Squares \ {mv.from, mv.to} :
                  PiecesAt(pieces, sq) = PiecesAt(before.pieces, sq)

\* C9: update_by_move fails exactly for the moves whose promotion is present,
\* and a failed call has modified none of the 12 piece bit-sets, the 2 color
\* aggregates or occupied.
C9_PromotionFails ==
    /\ last_mv = {} => ~panicked
    /\ \A mv \in last_mv :
          /\ panicked <=> mv.promotion # {}
          /\ panicked => Layers(board) = Layers(before)

C9_Witness ==
    \E mv \in last_mv : panicked /\ mv.promotion # {} /\ mv.is_capture /\ ply = 2

\* ============================================ properties: move generation
Generated == request # <<>>

PosIn(req, p) == CHOOSE i \in 1..Len(req) : req[i] = p

SourceThenDest(a, b) == a.from < b.from \/ (a.from = b.from /\ a.to < b.to)

\* C5 (as stated): the generated list is ordered by ascending piece ordinal,
\* then ascending source square, then ascending destination square,
\* whatever the order in which the caller lists the pieces.
C5_AscendingOrdinalOrder ==
    \A i, j \in 1..Len(moves_list) : i < j =>
        LET a == moves_list[i]
            b == moves_list[j]
        IN  a.piece < b.piece \/ (a.piece = b.piece /\ SourceThenDest(a, b))

\* C5 (amended): the generated list is ordered by the position of the moving
\* piece in the caller's list, then ascending source square, then ascending
\* destination square; every move is of a requested piece of the side to move.
C5_CallerOrder ==
    Generated =>
        /\ \A i \in 1..Len(moves_list) :
              /\ moves_list[i].piece \in SeqSet(request)
              /\ color(moves_list[i].piece) = side_to_move
        /\ \A i, j \in 1..Len(moves_list) : i < j =>
              LET a == moves_list[i]
                  b == moves_list[j]
              IN  \/ PosIn(request, a.piece) < PosIn(request, b.piece)
                  \/ a.piece = b.piece /\ SourceThenDest(a, b)

\* A request listing a higher ordinal first, both pieces having moves, the
\* first from two sources and to two destinations of one source.
C5_Witness ==
    /\ Len(request) = 2
    /\ request[1] > request[2]
    /\ \E i, j, k \in 1..Len(moves_list) :
          /\ moves_list[i].piece = request[1]
          /\ moves_list[j].piece = request[1]
          /\ moves_list[i].from # moves_list[j].from
          /\ moves_list[k].piece = request[2]
    /\ \E i, j \in 1..Len(moves_list) :
          /\ moves_list[i].from = moves_list[j].from
          /\ moves_list[i].to # moves_list[j].to

FileOf(sq) == sq % 8

RankOf(sq) == sq \div 8

OnBoard(sq, d, k) ==
    /\ FileOf(sq) + k * d[1] \in 0..7
    /\ RankOf(sq) + k * d[2] \in 0..7

Along(sq, d, k) == (RankOf(sq) + k * d[2]) * 8 + FileOf(sq) + k * d[1]

Diagonals == {<<1, 1>>, <<1, -1>>, <<-1, 1>>, <<-1, -1>>}

Orthogonals == {<<1, 0>>, <<-1, 0>>, <<0, 1>>, <<0, -1>>}

DirectionsOf(p) ==
    CASE p \in {WhiteBishop, BlackBishop} -> Diagonals
      [] p \in {WhiteRook, BlackRook} -> Orthogonals
      [] p \in {WhiteQueen, BlackQueen} -> Diagonals \cup Orthogonals
      [] OTHER -> {}

\* Steps along d from sq that land on an occupied square.
Blockers(sq, d) == {k \in 1..7 : OnBoard(sq, d, k) /\ Along(sq, d, k) \in occupied}

FirstBlocker(sq, d) == CHOOSE k \in Blockers(sq, d) : \A m \in Blockers(sq, d) : k <= m

MovesOnto(p, from, to) ==
    {i \in 1..Len(moves_list) :
        moves_list[i].piece = p /\ moves_list[i].from = from /\ moves_list[i].to = to}

\* The requested sliding pieces of the side to move, with a source and a ray.
SlidingRays ==
    LET requested == {p \in SeqSet(request) : color(p) = side_to_move}
        rays == UNION {{p} \X pieces[p] \X DirectionsOf(p) : p \in requested}
    IN  {r \in rays : Blockers(r[2], r[3]) # {}}

\* C7: no generated move lands on a square of the mover's own color; a
\* sliding ray that stops on a friendly piece gives no move onto it, one that
\* stops on an enemy piece gives exactly one capture onto it, and neither
\* gives a move beyond the stopping square.
C7_NoOwnDestination ==
    /\ Generated => \A i \in 1..Len(moves_list) : moves_list[i].to \notin all[side_to_move]
    /\ \A r \in SlidingRays :
          LET p == r[1]
              from == r[2]
              d == r[3]
              k == FirstBlocker(from, d)
              stop == Along(from, d, k)
          IN  /\ stop \in all[side_to_move] => MovesOnto(p, from, stop) = {}
              /\ stop \in all[opposite(side_to_move)] =>
                    /\ Cardinality(MovesOnto(p, from, stop)) = 1
                    /\ \A i \in MovesOnto(p, from, stop) : moves_list[i].is_capture
              /\ \A m \in (k + 1)..7 :
                    OnBoard(from, d, m) => MovesOnto(p, from, Along(from, d, m)) = {}

\* A ray stopped by a friend and a ray stopped by an enemy with the board
\* continuing behind it, both of requested pieces.
C7_Witness ==
    /\ Generated
    /\ InvariantsHold(board)
    /\ \E r \in SlidingRays :
          Along(r[2], r[3], FirstBlocker(r[2], r[3])) \in all[side_to_move]
    /\ \E r \in SlidingRays :
          /\ Along(r[2], r[3], FirstBlocker(r[2], r[3])) \in all[opposite(side_to_move)]
          /\ OnBoard(r[2], r[3], FirstBlocker(r[2], r[3]) + 1)

Abs(x) == IF x < 0 THEN 0 - x ELSE x

IndicesWhere(P(_)) == {i \in 1..Len(moves_list) : P(moves_list[i])}

\* C8: generate_moves() on the initial position, white to move, returns 20
\* moves: 8 single pawn pushes, 8 double pawn pushes, 4 knight moves, none of
\* them a capture.
C8_InitialTwentyMoves ==
    (Layers(board) = initial_board /\ side_to_move = White /\ request = ALL_PIECES) =>
        LET single(mv) == mv.piece = WhitePawn /\ mv.to = mv.from + 8
            double(mv) == mv.piece = WhitePawn /\ mv.to = mv.from + 16
            knight(mv) == mv.piece = WhiteKnight
            capture(mv) == mv.is_capture
        IN  /\ Len(moves_list) = 20
            /\ Cardinality(IndicesWhere(single)) = 8
            /\ Cardinality(IndicesWhere(double)) = 8
            /\ Cardinality(IndicesWhere(knight)) = 4
            /\ IndicesWhere(capture) = {}
            /\ Cardinality(SeqSet(moves_list)) = 20

C8_Witness ==
    /\ Layers(board) = initial_board
    /\ side_to_move = White
    /\ request = ALL_PIECES
    /\ Len(moves_list) > 0

\* The file and rank distances a piece's step allows.
StepFits(mv) ==
    LET df == Abs(FileOf(mv.to) - FileOf(mv.from))
        dr == RankOf(mv.to) - RankOf(mv.from)
        diagonal == df = Abs(dr) /\ df # 0
        straight == (df = 0) # (dr = 0)
    IN  CASE mv.piece \in {WhiteKing, BlackKing} -> df <= 1 /\ Abs(dr) <= 1 /\ mv.from # mv.to
          [] mv.piece \in {WhiteKnight, BlackKnight} ->
                (df = 1 /\ Abs(dr) = 2) \/ (df = 2 /\ Abs(dr) = 1)
          [] mv.piece = WhitePawn -> (df = 0 /\ dr \in {1, 2}) \/ (df = 1 /\ dr = 1)
          [] mv.piece = BlackPawn -> (df = 0 /\ dr \in {-1, -2}) \/ (df = 1 /\ dr = -1)
          [] mv.piece \in {WhiteBishop, BlackBishop} -> diagonal
          [] mv.piece \in {WhiteRook, BlackRook} -> straight
          [] OTHER -> diagonal \/ straight

\* C10: no generated move wraps around a board edge: kings and pawns change
\* file by at most 1 and knights by at most 2, with the rank distance of the
\* piece's step; bishops, rooks and queens stay on the diagonal, rank or file
\* of their source.
C10_NoWraparound == Generated => \A i \in 1..Len(moves_list) : StepFits(moves_list[i])

\* Moves of a king, of a knight, of a pawn and of a rook standing on the a or
\* h file have been generated.
C10_Witness ==
    LET edge(mv) == FileOf(mv.from) \in {0, 7}
        king(mv) == edge(mv) /\ mv.piece \in {WhiteKing, BlackKing}
        knight(mv) == edge(mv) /\ mv.piece \in {WhiteKnight, BlackKnight}
        pawn(mv) == edge(mv) /\ mv.piece \in {WhitePawn, BlackPawn}
        rook(mv) == edge(mv) /\ mv.piece \in {WhiteRook, BlackRook}
    IN  /\ Generated
        /\ IndicesWhere(king) # {}
        /\ IndicesWhere(rook) # {}
        /\ IndicesWhere(knight) # {}
        /\ IndicesWhere(pawn) # {}

\* ------------------------------------------------------------ pawn targets
\* Forward direction and home rank (0-based) of a pawn identity.
Forward(p) == IF p = WhitePawn THEN 1 ELSE -1

HomeRank(p) == IF p = WhitePawn THEN 1 ELSE 6

\* The destinations the pawn rule describes for pawn p standing on sq, by
\* file and rank coordinates.
PawnTargets(p, sq) ==
    LET up == <<0, Forward(p)>>
        one == IF OnBoard(sq, up, 1) /\ Along(sq, up, 1) \notin occupied
               THEN {Along(sq, up, 1)} ELSE {}
        two == IF /\ RankOf(sq) = HomeRank(p)
                  /\ one # {}
                  /\ Along(sq, up, 2) \notin occupied
               THEN {Along(sq, up, 2)} ELSE {}
        takes == {Along(sq, d, 1) : d \in {e \in {<<-1, Forward(p)>>, <<1, Forward(p)>>} :
                      /\ OnBoard(sq, e, 1)
                      /\ Along(sq, e, 1) \in all[opposite(color(p))]}}
    IN  one \cup two \cup takes

DestinationsOf(p, sq) ==
    {moves_list[i].to : i \in {j \in 1..Len(moves_list) :
        moves_list[j].piece = p /\ moves_list[j].from = sq}}

RequestedPawns == {p \in SeqSet(request) \cap {WhitePawn, BlackPawn} : color(p) = side_to_move}

\* C11: for a requested pawn of the side to move on square s the generated
\* destinations are exactly: the square one step forward if empty; the square
\* two steps forward if s is on the home rank and both squares are empty; each
\* forward-diagonal square that is on the board and in the opponent aggregate.
C11_PawnDestinations ==
    \A p \in RequestedPawns : \A sq \in pieces[p] :
        DestinationsOf(p, sq) = PawnTargets(p, sq)

\* Pawns of a requested identity: one with a double push and a capture, one
\* on its home rank blocked directly in front, one on the a or h file.
C11_Witness ==
    \E p \in RequestedPawns :
        /\ \E sq \in pieces[p] :
              /\ Along(sq, <<0, Forward(p)>>, 2) \in DestinationsOf(p, sq)
              /\ \E t \in DestinationsOf(p, sq) : FileOf(t) # FileOf(sq)
        /\ \E sq \in pieces[p] :
              /\ RankOf(sq) = HomeRank(p)
              /\ Along(sq, <<0, Forward(p)>>, 1) \in occupied
              /\ Along(sq, <<0, Forward(p)>>, 1) \notin DestinationsOf(p, sq)
        /\ \E sq \in pieces[p] : FileOf(sq) \in {0, 7} /\ DestinationsOf(p, sq) # {}

\* ---------------------------------------------- get_ls1b and reset_ls1b
\* Bit-sets of at most n members.
RECURSIVE BitSetsUpTo(_)
BitSetsUpTo(n) ==
    IF n = 0 THEN {{}}
    ELSE LET smaller == BitSetsUpTo(n - 1)
         IN  smaller \cup {x \cup {sq} : x \in smaller, sq \in Squares}

InitBits ==
    /\ pieces = initial_board.pieces
    /\ all = initial_board.all
    /\ occupied = initial_board.occupied
    /\ side_to_move = White
    /\ ply = 0
    /\ last_mv = {}
    /\ before = initial_board
    /\ panicked = FALSE
    /\ request = <<>>
    /\ moves_list = <<>>
    /\ bits \in {[NoBits EXCEPT !.x = x] : x \in BitSetsUpTo(MaxBits)}
    /\ square = NoSquare
    /\ origin = {}
    /\ loop = NoLoop

\* let bit = x.get_ls1b(); let rest = x.reset_ls1b();
ApplyLs1b ==
    /\ ~bits.applied
    /\ bits' = [bits EXCEPT !.ls1b = get_ls1b(bits.x), !.rest = reset_ls1b(bits.x),
                            !.applied = TRUE]
    /\ UNCHANGED <<pieces, all, occupied, side_to_move, ply, last_mv, before, panicked,
                   request, moves_list, square, origin, loop>>

\* x = rest: the loops go on with what reset_ls1b returned.
ContinueWithRest ==
    /\ bits.applied
    /\ bits.x # {}
    /\ bits' = [NoBits EXCEPT !.x = bits.rest]
    /\ UNCHANGED <<pieces, all, occupied, side_to_move, ply, last_mv, before, panicked,
                   request, moves_list, square, origin, loop>>

NextBits == ApplyLs1b \/ ContinueWithRest

SpecBits == InitBits /\ [][NextBits]_vars

\* C12: for a non-empty bit-set x, reset_ls1b(x) has one member less than x
\* and is x without its lowest-indexed member, and get_ls1b(x) is the
\* singleton of that member; for the empty bit-set both return the empty
\* bit-set.
C12_Ls1bLaw ==
    bits.applied =>
        IF bits.x = {}
        THEN bits.ls1b = {} /\ bits.rest = {}
        ELSE /\ Cardinality(bits.rest) = Cardinality(bits.x) - 1
             /\ Cardinality(bits.ls1b) = 1
             /\ bits.ls1b \subseteq bits.x
             /\ \A m \in bits.ls1b : \A t \in bits.x : m <= t
             /\ bits.rest = bits.x \ bits.ls1b

\* The operations have been applied to a bit-set of two members or more whose
\* lowest member is not bit 0.
C12_Witness ==
    /\ bits.applied
    /\ Cardinality(bits.x) >= 2
    /\ 0 \notin bits.x
    /\ bits.ls1b # {}

\* The operations have been applied to the empty bit-set.
C12_WitnessEmpty == bits.applied /\ bits.x = {}

\* ------------------------------------------------- Square and its text
LowerA == 97
UpperA == 65
UpperZ == 90
LowerZ == 122
Digit0 == 48
Space == 32
Backtick == 96
SharpS == 223
UpperS == 83
ARightHalfRing == 7834
ModifierRightHalfRing == 702

MaxTextLen == 2

\* The characters the texts are made of: '0'..'9', '@', 'A'..'I', '`',
\* 'a'..'i', ' ', and two letters whose upper case is two characters long.
Chars == (Digit0..(Digit0 + 9)) \cup ((UpperA - 1)..(UpperA + 8))
         \cup (Backtick..(LowerA + 8)) \cup {Space, SharpS, ARightHalfRing}

RECURSIVE TextsUpTo(_)
TextsUpTo(n) ==
    IF n = 0 THEN {<<>>}
    ELSE LET shorter == TextsUpTo(n - 1)
         IN  shorter \cup {Append(t, c) : t \in shorter, c \in Chars}

\* char::to_uppercase: one character gives one or more characters.
char_to_uppercase(c) ==
    IF c \in LowerA..LowerZ THEN <<c - (LowerA - UpperA)>>
    ELSE IF c = SharpS THEN <<UpperS, UpperS>>
    ELSE IF c = ARightHalfRing THEN <<UpperA, ModifierRightHalfRing>>
    ELSE <<c>>

\* str::to_uppercase: the upper case of each character, in order.
RECURSIVE to_uppercase(_)
to_uppercase(t) ==
    IF t = <<>> THEN <<>> ELSE char_to_uppercase(Head(t)) \o to_uppercase(Tail(t))

\* The literal of the match arm that gives Square sq: "A1" for 0, "B1" for 1,
\* ... "H8" for 63.
ArmLiteral(sq) == <<UpperA + (sq % 8), Digit0 + 1 + (sq \div 8)>>

InvalidSquare == "Invalid square"

\* TryFrom<&str> for Square: the Square of the arm the upper-cased text
\* matches, or the error of the catch-all arm.
try_from(value) ==
    LET upper == to_uppercase(value)
        arms == {sq \in Squares : ArmLiteral(sq) = upper}
    IN  IF arms # {} THEN [ok |-> arms, err |-> {}]
        ELSE [ok |-> {}, err |-> {InvalidSquare}]

\* "{}" of an unsigned integer: its decimal digits.
RECURSIVE Decimal(_)
Decimal(n) ==
    IF n < 10 THEN <<Digit0 + n>> ELSE Decimal(n \div 10) \o <<Digit0 + (n % 10)>>

\* Display for Square: "{}{}" of get_file() and get_rank(); get_file() is the
\* character b'a' + file number.
to_string(sq) == <<get_file(sq) + LowerA>> \o Decimal(get_rank(sq))

InitSquare ==
    /\ pieces = initial_board.pieces
    /\ all = initial_board.all
    /\ occupied = initial_board.occupied
    /\ side_to_move = White
    /\ ply = 0
    /\ last_mv = {}
    /\ before = initial_board
    /\ panicked = FALSE
    /\ request = <<>>
    /\ moves_list = <<>>
    /\ bits = NoBits
    /\ square \in {[NoSquare EXCEPT !.sq = {sq}, !.stage = "square"] : sq \in Squares}
                  \cup {[NoSquare EXCEPT !.text = t, !.stage = "text"] :
                            t \in TextsUpTo(MaxTextLen)}
    /\ origin = {}
    /\ loop = NoLoop

\* let shown = sq.to_string();
Display ==
    /\ square.stage = "square"
    /\ \E sq \in square.sq :
           square' = [square EXCEPT !.shown = to_string(sq), !.stage = "shown"]
    /\ UNCHANGED <<pieces, all, occupied, side_to_move, ply, last_mv, before, panicked,
                   request, moves_list, bits, origin, loop>>

\* The text Display gave is handed on as it is or in upper case.
PassText ==
    /\ square.stage = "shown"
    /\ \E upper \in BOOLEAN :
           square' = [square EXCEPT
                          !.text = IF upper THEN to_uppercase(square.shown) ELSE square.shown,
                          !.stage = "text"]
    /\ UNCHANGED <<pieces, all, occupied, side_to_move, ply, last_mv, before, panicked,
                   request, moves_list, bits, origin, loop>>

\* let r = Square::try_from(text);
TryFrom ==
    /\ square.stage = "text"
    /\ LET r == try_from(square.text)
       IN  square' = [square EXCEPT !.parsed = r.ok, !.err = r.err, !.stage = "parsed"]
    /\ UNCHANGED <<pieces, all, occupied, side_to_move, ply, last_mv, before, panicked,
                   request, moves_list, bits, origin, loop>>

NextSquare == Display \/ PassText \/ TryFrom

SpecSquare == InitSquare /\ [][NextSquare]_vars

\* The coordinate of square sq in lower case: file letter, then rank digit.
Coordinate(sq) == <<LowerA + (sq % 8), Digit0 + (sq \div 8) + 1>>

\* Characters a and b are the same letter in either case, or the same character.
SameIgnoringCase(a, b) ==
    \/ a = b
    \/ a \in UpperA..UpperZ /\ b = a + (LowerA - UpperA)
    \/ b \in UpperA..UpperZ /\ a = b + (LowerA - UpperA)

\* The squares whose coordinate text t is, case ignored.
CoordinateOf(t) ==
    {sq \in Squares : /\ Len(t) = 2
                      /\ \A i \in 1..2 : SameIgnoringCase(t[i], Coordinate(sq)[i])}

\* C13: the text of a square is its file letter 'a' + index % 8 followed by
\* its rank digit index / 8 + 1, and parsing that text, in lower or in upper
\* case, gives the square back; parsing a text that is not one of the 64
\* coordinates, case ignored, fails with the invalid-square error and gives
\* no Square.
C13_SquareRoundTrip ==
    /\ square.stage \in {"shown", "text", "parsed"} /\ square.sq # {} =>
           \A sq \in square.sq : square.shown = Coordinate(sq)
    /\ square.stage = "parsed" =>
           /\ square.sq # {} => square.parsed = square.sq /\ square.err = {}
           /\ CoordinateOf(square.text) # {} =>
                  square.parsed = CoordinateOf(square.text) /\ square.err = {}
           /\ CoordinateOf(square.text) = {} =>
                  square.parsed = {} /\ square.err = {InvalidSquare}

\* A square off the first rank and off the a-file has been shown, and its
\* text has been parsed in upper case.
C13_Witness ==
    /\ square.stage = "parsed"
    /\ \E sq \in square.sq : sq % 8 > 0 /\ sq \div 8 > 0
    /\ square.text # square.shown
    /\ square.parsed = square.sq

\* A text of two characters that is no coordinate has been refused.
C13_WitnessInvalid ==
    /\ square.stage = "parsed"
    /\ square.sq = {}
    /\ Len(square.text) = 2
    /\ square.err # {}

\* ------------------------------------- a quiet move and its reverse move
\* The boards the pair of moves is applied to: the initial board, a decoded
\* position, and a board whose layers disagree (left by a capture).
UndoBoards ==
    {Layers(initial_board),
     Layers(Decoded[FenPawnTakes]),
     Layers(update_by_move(Decoded[FenRookBlack],
                           MoveCapture(Sq("a", 2), Sq("d", 2), BlackRook)))}

InitUndo ==
    /\ \E b \in UndoBoards :
           /\ pieces = b.pieces
           /\ all = b.all
           /\ occupied = b.occupied
           /\ before = b
    /\ side_to_move = White
    /\ ply = 0
    /\ last_mv = {}
    /\ panicked = FALSE
    /\ request = <<>>
    /\ moves_list = <<>>
    /\ InitLocals

\* board.update_by_move(Move::quiet(f, t, p))
ApplyQuiet(f, t, p) ==
    /\ origin = {}
    /\ LET mv == MoveQuiet(f, t, p)
           r == update_by_move(board, mv)
       IN  /\ SetBoard(r)
           /\ panicked' = r.panicked
           /\ last_mv' = {mv}
           /\ origin' = {[b |-> Layers(board), mv |-> mv, undone |-> FALSE]}
    /\ before' = board
    /\ UNCHANGED <<side_to_move, ply, request, moves_list, bits, square, loop>>

\* board.update_by_move(Move::quiet(t, f, p)), after the move from f to t
ApplyReverse ==
    /\ \E o \in origin :
           /\ ~o.undone
           /\ LET mv == MoveQuiet(o.mv.to, o.mv.from, o.mv.piece)
                  r == update_by_move(board, mv)
              IN  /\ SetBoard(r)
                  /\ panicked' = r.panicked
                  /\ last_mv' = {mv}
           /\ origin' = {[o EXCEPT !.undone = TRUE]}
    /\ before' = board
    /\ UNCHANGED <<side_to_move, ply, request, moves_list, bits, square, loop>>

NextUndo ==
    \/ origin = {} /\ \E f \in Squares, t \in Squares, p \in Pieces : ApplyQuiet(f, t, p)
    \/ ApplyReverse

SpecUndo == InitUndo /\ [][NextUndo]_vars

\* C14: a quiet move of piece p from f to t followed by the quiet move of p
\* from t to f leaves the Board as it was before the two, in the 12 piece
\* bit-sets, the 2 color aggregates and occupied.
C14_ReverseUndoesQuiet ==
    \A o \in origin : o.undone => Layers(board) = o.b /\ ~panicked

\* A piece standing on f has gone to the empty square t and back.
C14_Witness ==
    \E o \in origin :
        /\ o.undone
        /\ o.mv.from # o.mv.to
        /\ o.mv.from \in o.b.pieces[o.mv.piece]
        /\ o.mv.to \notin o.b.occupied
        /\ Layers(before) # o.b
        /\ Layers(board) = o.b

\* The two moves were made with a piece that does not stand on f, on a board
\* whose occupied set disagrees with its piece bit-sets.
C14_WitnessAnyBoard ==
    \E o \in origin :
        /\ o.undone
        /\ o.mv.from \notin o.b.pieces[o.mv.piece]
        /\ o.b.occupied # UNION {o.b.pieces[i] : i \in Pieces}

\* ------------------------------------ generate_moves_for, step by step
\* The boards generate_moves_for is called on, each with its side to move:
\* decoded positions, and a board whose layers disagree (left by a capture).
LoopPositions == {START_POSITION, FenMixedWhite, FenSlidersBlack, FenPawnTakes}

LoopInputs ==
    {[b |-> Layers(Decoded[fen]), side |-> fen.side] : fen \in LoopPositions}
    \cup {[b |-> Layers(update_by_move(Decoded[FenRookBlack],
                                       MoveCapture(Sq("a", 2), Sq("d", 2), BlackRook))),
           side |-> White]}

InitLoop ==
    /\ \E in \in LoopInputs :
           /\ pieces = in.b.pieces
           /\ all = in.b.all
           /\ occupied = in.b.occupied
           /\ before = in.b
           /\ side_to_move = in.side
    /\ ply = 0
    /\ last_mv = {}
    /\ panicked = FALSE
    /\ request = <<>>
    /\ moves_list = <<>>
    /\ InitLocals

\* generate_moves_for(pieces) is entered: let mut moves_list = Vec::new();
LoopStart(req) ==
    /\ loop.pc = "idle"
    /\ request' = req
    /\ moves_list' = <<>>
    /\ loop' = [NoLoop EXCEPT !.pc = "for", !.todo = req]
    /\ UNCHANGED <<pieces, all, occupied, side_to_move, ply, last_mv, before, panicked,
                   bits, square, origin>>

\* for: the filter lets the next requested piece through;
\* let mut pieces_bb = self.pieces[moving_pieces as usize];
ForEnter ==
    /\ loop.pc = "for"
    /\ loop.todo # <<>>
    /\ side_to_move = color(Head(loop.todo))
    /\ loop' = [loop EXCEPT !.pc = "source", !.todo = Tail(loop.todo),
                            !.moving_pieces = {Head(loop.todo)},
                            !.pieces_bb = pieces[Head(loop.todo)],
                            !.sources = 0]
    /\ UNCHANGED <<pieces, all, occupied, side_to_move, ply, last_mv, before, panicked,
                   request, moves_list, bits, square, origin>>

\* for: the filter drops a requested piece of the other color.
ForSkip ==
    /\ loop.pc = "for"
    /\ loop.todo # <<>>
    /\ side_to_move # color(Head(loop.todo))
    /\ loop' = [loop EXCEPT !.todo = Tail(loop.todo)]
    /\ UNCHANGED <<pieces, all, occupied, side_to_move, ply, last_mv, before, panicked,
                   request, moves_list, bits, square, origin>>

\* for: no requested piece is left; moves_list is returned.
ForExit ==
    /\ loop.pc = "for"
    /\ loop.todo = <<>>
    /\ loop' = [loop EXCEPT !.pc = "done"]
    /\ UNCHANGED <<pieces, all, occupied, side_to_move, ply, last_mv, before, panicked,
                   request, moves_list, bits, square, origin>>

\* while !pieces_bb.is_zero(): from_bb, from_square and moves_bb are computed.
SourceStep ==
    /\ loop.pc = "source"
    /\ ~is_zero(loop.pieces_bb)
    /\ \E moving_pieces \in loop.moving_pieces :
         LET own_bb == all[side_to_move]
             opposite_bb == all[opposite(side_to_move)]
             from_bb == get_ls1b(loop.pieces_bb)
             from_square == get_index(from_bb)
             moves_bb == moves_bb_for(moving_pieces, from_bb, occupied, own_bb, opposite_bb)
         IN  loop' = [loop EXCEPT !.pc = "dest", !.from_square = {from_square},
                                  !.moves_bb = moves_bb, !.targets = moves_bb,
                                  !.sources = loop.sources + 1, !.dests = 0]
    /\ UNCHANGED <<pieces, all, occupied, side_to_move, ply, last_mv, before, panicked,
                   request, moves_list, bits, square, origin>>

\* while !pieces_bb.is_zero(): the bit-set is empty, the loop is left.
SourceExit ==
    /\ loop.pc = "source"
    /\ is_zero(loop.pieces_bb)
    /\ loop' = [loop EXCEPT !.pc = "for"]
    /\ UNCHANGED <<pieces, all, occupied, side_to_move, ply, last_mv, before, panicked,
                   request, moves_list, bits, square, origin>>

\* Variant of DestStep: moves_bb is left as it is after the push.
DestStep_no_reset ==
    /\ loop.pc = "dest"
    /\ ~is_zero(loop.moves_bb)
    /\ \E moving_pieces \in loop.moving_pieces, from_square \in loop.from_square :
         LET opposite_bb == all[opposite(side_to_move)]
             to_bb == get_ls1b(loop.moves_bb)
             to_square == get_index(to_bb)
             is_capture == contains(opposite_bb, to_bb)
             mv == MoveNew(from_square, to_square, NoPromotion, moving_pieces, is_capture)
         IN  /\ moves_list' = Append(moves_list, mv)
             /\ loop' = [loop EXCEPT !.dests = loop.dests + 1]
    /\ UNCHANGED <<pieces, all, occupied, side_to_move, ply, last_mv, before, panicked,
                   request, bits, square, origin>>

\* while !moves_bb.is_zero(): a Move is pushed, moves_bb = moves_bb.reset_ls1b();
DestStep ==
    /\ loop.pc = "dest"
    /\ ~is_zero(loop.moves_bb)
    /\ \E moving_pieces \in loop.moving_pieces, from_square \in loop.from_square :
         LET opposite_bb == all[opposite(side_to_move)]
             to_bb == get_ls1b(loop.moves_bb)
             to_square == get_index(to_bb)
             is_capture == contains(opposite_bb, to_bb)
             mv == MoveNew(from_square, to_square, NoPromotion, moving_pieces, is_capture)
         IN  /\ moves_list' = Append(moves_list, mv)
             /\ loop' = [loop EXCEPT !.moves_bb = reset_ls1b(loop.moves_bb),
                                     !.dests = loop.dests + 1]
    /\ UNCHANGED <<pieces, all, occupied, side_to_move, ply, last_mv, before, panicked,
                   request, bits, square, origin>>

\* while !moves_bb.is_zero(): the set is empty, the loop is left;
\* pieces_bb = pieces_bb.reset_ls1b();
DestExit ==
    /\ loop.pc = "dest"
    /\ is_zero(loop.moves_bb)
    /\ loop' = [loop EXCEPT !.pc = "source", !.pieces_bb = reset_ls1b(loop.pieces_bb)]
    /\ UNCHANGED <<pieces, all, occupied, side_to_move, ply, last_mv, before, panicked,
                   request, moves_list, bits, square, origin>>

\* The requests of a stepwise call: those of Requests, and all 12 pieces.
LoopRequests == Requests \cup {ALL_PIECES}

NextLoop ==
    \/ loop.pc = "idle" /\ \E req \in LoopRequests : LoopStart(req)
    \/ ForEnter
    \/ ForSkip
    \/ ForExit
    \/ SourceStep
    \/ SourceExit
    \/ DestStep
    \/ DestExit

\* The call runs in one thread and nothing makes it wait: a step that can be
\* taken is taken.
SpecLoop == InitLoop /\ [][NextLoop]_vars /\ WF_vars(NextLoop)

\* The (piece, source, destination) triples of a request: for each requested
\* piece of the side to move, each member of its bit-set and each member of
\* the target set of that source.
TargetsOf(p, sq) ==
    moves_bb_for(p, {sq}, occupied, all[side_to_move], all[opposite(side_to_move)])

PairsOf(req) ==
    UNION {UNION {{<<p, sq, to>> : to \in TargetsOf(p, sq)} : sq \in pieces[p]} :
               p \in {q \in SeqSet(req) : color(q) = side_to_move}}

\* The last n moves of the list.
LastMoves(n) == {moves_list[k] : k \in (Len(moves_list) - n + 1)..Len(moves_list)}

LoopCounts ==
    /\ loop.pc # "idle" => Layers(board) = before
    /\ loop.pc = "source" =>
           \A p \in loop.moving_pieces :
               /\ loop.pieces_bb \subseteq pieces[p]
               /\ loop.sources + Cardinality(loop.pieces_bb) = Cardinality(pieces[p])
    /\ loop.pc = "dest" =>
           \A p \in loop.moving_pieces :
               /\ loop.pieces_bb \subseteq pieces[p]
               /\ loop.sources - 1 + Cardinality(loop.pieces_bb) = Cardinality(pieces[p])
               /\ loop.from_square \subseteq loop.pieces_bb
               /\ \A sq \in loop.from_square : loop.targets = TargetsOf(p, sq)
               /\ loop.moves_bb \subseteq loop.targets
               /\ loop.dests + Cardinality(loop.moves_bb) = Cardinality(loop.targets)
               /\ loop.dests <= Len(moves_list)
               /\ Cardinality(LastMoves(loop.dests)) = loop.dests
               /\ {<<mv.piece, {mv.from}, mv.to>> : mv \in LastMoves(loop.dests)}
                  = {<<p, loop.from_square, to>> : to \in loop.targets \ loop.moves_bb}
    /\ loop.pc = "done" =>
           /\ {<<mv.piece, mv.from, mv.to>> : mv \in SeqSet(moves_list)} = PairsOf(request)
           /\ Len(moves_list) = Cardinality(PairsOf(request))
           /\ moves_list = generate_moves_for(board, side_to_move, request)

\* C15: a call of generate_moves_for comes to its end, and leaves the Board
\* as it was; each iteration of the source loop takes one bit off the working
\* copy of the piece bit-set and each iteration of the destination loop one
\* bit off the target set, so the source loop runs once per member of the
\* bit-set of each requested piece of the side to move, the destination loop
\* once per member of the target set, and one Move is emitted per (source,
\* destination) pair.
C15_LoopsTerminate ==
    /\ []LoopCounts
    /\ (loop.pc # "idle") ~> (loop.pc = "done")

\* A call has ended that skipped a piece of the other color and visited a
\* piece with several sources, one of them with several destinations.
C15_Witness ==
    /\ loop.pc = "done"
    /\ \E i \in 1..Len(request) : color(request[i]) # side_to_move
    /\ \E i \in 1..Len(request) :
           /\ color(request[i]) = side_to_move
           /\ Cardinality(pieces[request[i]]) >= 2
           /\ \E sq \in pieces[request[i]] : Cardinality(TargetsOf(request[i], sq)) >= 2
    /\ Len(moves_list) >= 3

====
